---- MODULE Spec2Model ----
(***************************************************************************)
(* Model of the dataset indexing engine of emorec                          *)
(* (src/emorec/dataset/dataset.py): Dataset, LabelledDataset and           *)
(* CombinedDataset with their in-place mutations.                          *)
(*                                                                         *)
(* A dataset object is a record of its attributes.  Index values are kept  *)
(* 0-based as in the source; sequences are 1-based, so a Python a[i] is    *)
(* a[i + 1] here.  A numpy array is a sequence; the attribute names whose  *)
(* array has dtype float64 (np.array([]) of an empty list) are collected   *)
(* in the field floats, the attributes that were never assigned are        *)
(* missing from the field defined, and an exception that escaped the last  *)
(* call is named in the field raised (the object then keeps the partial    *)
(* assignments the call made before it raised).                            *)
(***************************************************************************)
EXTENDS Integers, Sequences, FiniteSets, TLC

VARIABLES
    datasets,   \* the source datasets, in the order they are combined
    combined,   \* the CombinedDataset built from them, once constructed
    op,         \* the last call: its name, its target and its arguments
    prev,       \* the target of the last call as it was before the call
    calls,      \* number of mutating calls made so far
    ragged,     \* a ragged feature container on its way through
                \* _make_flat and _make_ragged
    norm,       \* two datasets that differ in their features only, on their
                \* way to normalise
    alias       \* a combination and its sources as objects of a heap

\* the variables the dataset operations do not touch
aux == <<ragged, norm, alias>>

vars == <<datasets, combined, op, prev, calls, aux>>

(***************************************************************************)
(* Bounds of the model.                                                    *)
(***************************************************************************)
\* number of mutating calls (remove_instances, remove_classes, map_classes)
\* a run makes
MaxCalls == 2

\* names the backend of the first source corpus delivers
NamesA == <<"a1", "a2">>

\* names the backend of the second source corpus delivers
NamesB == <<"b1">>

\* class labels of the annotation files, of allow-lists and of mappings
Labels == {"happy", "sad"}

\* a name that is in no dataset
Ghost == "zz"

\* all strings that are ever sorted, in lexicographic (code point) order
LexOrder == <<"X", "Y", "Z", "happy", "sad">>

(***************************************************************************)
(* Python and numpy primitives.                                            *)
(***************************************************************************)
Range(s) == {s[k] : k \in DOMAIN s}

Max(S) == CHOOSE m \in S : \A n \in S : n <= m

\* rank of a string in the lexicographic order
Rank(v) == CHOOSE k \in DOMAIN LexOrder : LexOrder[k] = v

\* sorted(S) of a set of strings
RECURSIVE Sorted(_)
Sorted(S) ==
    IF S = {} THEN <<>>
    ELSE LET m == CHOOSE a \in S : \A b \in S : Rank(a) <= Rank(b)
         IN  <<m>> \o Sorted(S \ {m})

\* the integers of S in ascending order
RECURSIVE Ascending(_)
Ascending(S) ==
    IF S = {} THEN <<>>
    ELSE LET m == CHOOSE a \in S : \A b \in S : a <= b
         IN  <<m>> \o Ascending(S \ {m})

\* np.unique(a): the sorted distinct values
Unique(a) == Ascending(Range(a))

\* list.index(v): 0-based offset of the first occurrence (v must occur)
Index(list, v) == (CHOOSE k \in DOMAIN list :
                      list[k] = v /\ \A j \in 1..(k - 1) : list[j] /= v) - 1

\* whether every 0-based index of idx addresses an element of a
InRange(a, idx) == \A k \in DOMAIN idx : idx[k] >= 0 /\ idx[k] < Len(a)

\* a[idx] with a list of 0-based indices (numpy fancy indexing)
Take(a, idx) == [k \in 1..Len(idx) |-> a[idx[k] + 1]]

\* [i for i, v in enumerate(a) if v in S]: the 0-based positions, ascending
Positions(a, S) == Ascending({k - 1 : k \in {j \in DOMAIN a : a[j] \in S}})

\* number of occurrences of v in a
Count(a, v) == Cardinality({k \in DOMAIN a : a[k] = v})

\* np.bincount(a, minlength=m) of an integer array
Bincount(a, m) ==
    LET n == IF a = <<>> THEN m
             ELSE IF Max(Range(a)) + 1 > m THEN Max(Range(a)) + 1 ELSE m
    IN  [k \in 1..n |-> Count(a, k - 1)]

\* np.repeat(np.arange(len(sizes)), sizes)
RECURSIVE RepeatFrom(_, _)
RepeatFrom(sizes, k) ==
    IF k > Len(sizes) THEN <<>>
    ELSE [j \in 1..sizes[k] |-> k - 1] \o RepeatFrom(sizes, k + 1)

Repeat(sizes) == RepeatFrom(sizes, 1)

\* dict.get(k, k) of a mapping given as a function on its keys
MapGet(map, k) == IF k \in DOMAIN map THEN map[k] ELSE k

\* the object with the exception e escaping the running call from the
\* source line at
Raise(d, e, at) == [d EXCEPT !.raised = e, !.at = at]

(***************************************************************************)
(* The corpus registry (emorec/dataset/corpora.py), which gives the male   *)
(* and female speakers and the speaker groups of the corpora it knows.     *)
(***************************************************************************)
Lower(c) == CASE c = "A" -> "a" [] c = "B" -> "b" [] c = "G" -> "g"
              [] c = "H" -> "h" [] OTHER -> c

corpora ==
    [c \in {"g", "h"} |->
        IF c = "g"
        THEN [male_speakers |-> <<"X">>, female_speakers |-> <<"Y">>,
              speaker_groups |-> <<{"X", "Y"}>>]
        ELSE [male_speakers |-> <<"X">>, female_speakers |-> <<"Y">>,
              speaker_groups |-> <<{"Y"}, {"X"}>>]]

(***************************************************************************)
(* Dataset                                                                 *)
(***************************************************************************)
\* the attributes of a dataset object before any constructor has run:
\* the class attributes of Dataset, nothing else assigned
Blank ==
    [kind |-> "Dataset", corpus |-> "", names |-> <<>>, x |-> <<>>,
     speakers |-> <<"unknown">>, speaker_indices |-> <<>>,
     speaker_counts |-> <<>>, speaker_groups |-> <<>>,
     speaker_group_indices |-> <<>>,
     male_speakers |-> <<>>, female_speakers |-> <<>>,
     male_indices |-> <<>>, female_indices |-> <<>>,
     classes |-> <<>>, y |-> <<>>, class_counts |-> <<>>, labels_all |-> <<>>,
     corpora |-> <<>>, corpus_indices |-> <<>>, corpus_counts |-> <<>>,
     defined |-> {}, floats |-> {}, raised |-> "", at |-> 0]

\* np.array([...]) of a list comprehension: float64 when the list is empty
DtypeOf(d, attr, a) ==
    IF a = <<>> THEN d.floats \cup {attr} ELSE d.floats \ {attr}

\* the speaker label of every instance: np.array(speakers)[speaker_indices]
SpeakerLabels(d) == Take(d.speakers, d.speaker_indices)

\* Dataset._reset_male_female_indices
ResetMaleFemaleIndices(d) ==
    IF d.male_speakers /= <<>> /\ d.female_speakers /= <<>>
    THEN IF "speaker_indices" \in d.floats
            \/ ~InRange(d.speakers, d.speaker_indices)
         THEN Raise(d, "IndexError", 93)
         ELSE [d EXCEPT
                 !.male_indices =
                     Positions(SpeakerLabels(d), Range(d.male_speakers)),
                 !.female_indices =
                     Positions(SpeakerLabels(d), Range(d.female_speakers)),
                 !.defined = @ \cup {"male_indices", "female_indices"}]
    ELSE d

\* the array speaker_to_group that _reset_speaker_group_indices fills: the
\* last group holding the speaker wins, and a speaker of no group keeps the
\* uninitialised cell of np.empty, here the value garbage
SpeakerToGroup(d, garbage) ==
    [s \in 1..Len(d.speakers) |->
        LET holding == {i \in DOMAIN d.speaker_groups :
                            d.speakers[s] \in d.speaker_groups[i]}
        IN  IF holding = {} THEN garbage ELSE Max(holding) - 1]

\* Dataset._reset_speaker_group_indices
ResetSpeakerGroupIndices(d, garbage) ==
    IF \E i \in DOMAIN d.speaker_groups :
          \E sp \in d.speaker_groups[i] : sp \notin Range(d.speakers)
    THEN Raise(d, "ValueError", 103)
    ELSE IF "speaker_indices" \in d.floats
            \/ ~InRange(d.speakers, d.speaker_indices)
    THEN Raise(d, "IndexError", 104)
    ELSE [d EXCEPT !.speaker_group_indices =
                        Take(SpeakerToGroup(d, garbage), d.speaker_indices),
                   !.floats = @ \ {"speaker_group_indices"}]

\* Dataset.__init__ on what the backend delivers (corpus, names, features)
\* and the speaker annotation spk: a function from names to speakers, or
\* the empty function when no speaker_path is given
DatasetInit(corpus, names, x, spk, garbage) ==
    LET given == DOMAIN spk /= {}
        speakers == IF given THEN Sorted({spk[n] : n \in Range(names)})
                    ELSE <<"unknown">>
        known == given /\ Lower(corpus) \in DOMAIN corpora
        d1 == [Blank EXCEPT
                 !.corpus = corpus, !.names = names, !.x = x,
                 !.speakers = speakers,
                 !.speaker_indices =
                     IF given
                     THEN [k \in 1..Len(names) |-> Index(speakers, spk[names[k]])]
                     ELSE [k \in 1..Len(names) |-> 0],
                 !.male_speakers =
                     IF known THEN corpora[Lower(corpus)].male_speakers ELSE <<>>,
                 !.female_speakers =
                     IF known THEN corpora[Lower(corpus)].female_speakers ELSE <<>>,
                 !.speaker_groups =
                     IF known THEN corpora[Lower(corpus)].speaker_groups ELSE <<>>]
        d2 == [d1 EXCEPT
                 !.speaker_counts = Bincount(d1.speaker_indices, Len(speakers)),
                 !.defined = @ \cup {"speaker_counts"}]
        d3 == ResetMaleFemaleIndices(d2)
        d4 == IF d3.speaker_groups = <<>>
              THEN [d3 EXCEPT !.speaker_groups =
                                 [k \in 1..Len(speakers) |-> {speakers[k]}]]
              ELSE d3
    IN  IF d3.raised /= "" THEN d3 ELSE ResetSpeakerGroupIndices(d4, garbage)

\* idx of remove_instances: the positions of the names that are in keep
KeepIdx(d, keep) == Positions(d.names, keep)

\* a renumbering that gives every kept instance the first remaining speaker
FirstSpeakerIndices(old, new_speakers, idx) == [k \in 1..Len(idx) |-> 0]

\* Dataset.remove_instances, lines 116-121: the speaker index of every kept
\* instance, looked up by speaker label in the compacted speaker list
RenumberedSpeakerIndices(old, new_speakers, idx) ==
    [k \in 1..Len(idx) |->
        Index(new_speakers, old.speakers[old.speaker_indices[idx[k] + 1] + 1])]

\* Dataset.remove_instances, lines 113-140: the speaker part, run on the
\* object d whose names and x are already filtered, with idx and the
\* arrays of the object old as they were before the call
RemoveInstancesSpeakers(d, old, idx, garbage) ==
    IF ~InRange(old.speaker_indices, idx) THEN Raise(d, "IndexError", 113)
    ELSE
    LET new_sp == Unique(Take(old.speaker_indices, idx))
    IN  IF Len(new_sp) < Len(old.speakers)
        THEN
          IF ~InRange(old.speakers, new_sp) THEN Raise(d, "IndexError", 115)
          ELSE
          LET new_speakers == Take(old.speakers, new_sp)
              speaker_indices ==
                  RenumberedSpeakerIndices(old, new_speakers, idx)
              d1 == [d EXCEPT !.speaker_indices = speaker_indices,
                              !.floats = DtypeOf(d, "speaker_indices",
                                                 speaker_indices),
                              !.speakers = new_speakers]
          IN  IF ~InRange(old.speaker_group_indices, idx)
              THEN Raise(d1, "IndexError", 124)
              ELSE
              LET new_sp_grp == Unique(Take(old.speaker_group_indices, idx))
              IN  IF ~InRange(old.speaker_groups, new_sp_grp)
                  THEN Raise(d1, "IndexError", 125)
                  ELSE
                  LET d2 == [d1 EXCEPT !.speaker_groups =
                                 Take(old.speaker_groups, new_sp_grp)]
                      d3 == ResetSpeakerGroupIndices(d2, garbage)
                  IN  IF d3.raised /= "" THEN d3
                      ELSE IF d3.male_speakers /= <<>>
                              /\ d3.female_speakers /= <<>>
                      THEN ResetMaleFemaleIndices(
                             [d3 EXCEPT
                                !.male_speakers =
                                    SelectSeq(@, LAMBDA sp :
                                                sp \in Range(d3.speakers)),
                                !.female_speakers =
                                    SelectSeq(@, LAMBDA sp :
                                                sp \in Range(d3.speakers))])
                      ELSE d3
        ELSE
          LET d1 == [d EXCEPT !.speaker_indices =
                                  Take(old.speaker_indices, idx)]
          IN  IF ~InRange(old.speaker_group_indices, idx)
              THEN Raise(d1, "IndexError", 138)
              ELSE
              LET d2 == [d1 EXCEPT !.speaker_group_indices =
                                       Take(old.speaker_group_indices, idx)]
              IN  \* self.male_indices is unset, or the tuple that nonzero()
                  \* returned, which a list cannot index
                  IF "male_indices" \notin d2.defined
                  THEN Raise(d2, "AttributeError", 139)
                  ELSE Raise(d2, "TypeError", 139)

\* Dataset.remove_instances
DatasetRemoveInstances(d, keep, garbage) ==
    LET idx == KeepIdx(d, keep)
        d1 == [d EXCEPT !.names = Take(d.names, idx)]
    IN  IF ~InRange(d.x, idx) THEN Raise(d1, "IndexError", 112)
        ELSE RemoveInstancesSpeakers([d1 EXCEPT !.x = Take(d.x, idx)],
                                     d, idx, garbage)

(***************************************************************************)
(* LabelledDataset                                                         *)
(***************************************************************************)
\* the class label string of every entry of y: classes[int(i)] for i in y
StrLabels(d) == [k \in 1..Len(d.y) |-> d.classes[d.y[k] + 1]]

\* self._class_counts = np.bincount(self.y) at the source line at;
\* bincount refuses a float64 array
SetClassCounts(d, at) ==
    IF "y" \in d.floats THEN Raise(d, "TypeError", at)
    ELSE [d EXCEPT !.class_counts = Bincount(d.y, 0),
                   !.defined = @ \cup {"class_counts"}]

\* LabelledDataset.__init__ with the class annotation lab, a function from
\* names to labels
LabelledDatasetInit(corpus, names, x, spk, lab, garbage) ==
    LET d == DatasetInit(corpus, names, x, spk, garbage)
        classes == Sorted({lab[n] : n \in Range(names)})
        y == [k \in 1..Len(names) |-> Index(classes, lab[names[k]])]
        d1 == [d EXCEPT !.kind = "LabelledDataset",
                        !.classes = classes, !.y = y,
                        !.floats = DtypeOf(d, "y", y),
                        !.defined = @ \cup {"classes", "y"}]
        d2 == SetClassCounts(d1, 327)
    IN  IF d.raised /= "" THEN d
        ELSE IF d2.raised /= "" THEN d2
        ELSE [d2 EXCEPT !.labels_all = d2.y,
                        !.defined = @ \cup {"labels"}]

\* LabelledDataset.remove_instances
LabelledRemoveInstances(d, keep, garbage) ==
    LET idx == KeepIdx(d, keep)
    IN  IF ~InRange(d.y, idx) THEN Raise(d, "IndexError", 332)
        ELSE
        LET new_cl == Unique(Take(d.y, idx))
            d1 == IF Len(new_cl) < Len(d.classes)
                  THEN LET new_classes == Take(d.classes, new_cl)
                           y == [k \in 1..Len(idx) |->
                                   Index(new_classes,
                                         d.classes[d.y[idx[k] + 1] + 1])]
                       IN  [d EXCEPT !.y = y,
                                     !.floats = DtypeOf(d, "y", y),
                                     !.classes = new_classes]
                  ELSE [d EXCEPT !.y = Take(d.y, idx)]
            d2 == SetClassCounts(d1, 341)
        IN  IF d2.raised /= "" THEN d2
            ELSE DatasetRemoveInstances(d2, keep, garbage)

\* LabelledDataset.map_classes
MapClasses(d, map) ==
    LET new_classes == Sorted({MapGet(map, c) : c \in Range(d.classes)})
        arr_map == [k \in 1..Len(d.classes) |->
                       Index(new_classes, MapGet(map, d.classes[k]))]
    IN  IF "y" \in d.floats \/ ~InRange(arr_map, d.y)
        THEN Raise(d, "IndexError", 367)
        ELSE
        LET d1 == [d EXCEPT !.y = Take(arr_map, d.y),
                            !.floats = IF arr_map = <<>>
                                       THEN @ \cup {"y"} ELSE @ \ {"y"}]
            d2 == SetClassCounts(d1, 368)
        IN  IF d2.raised /= "" THEN d2
            ELSE [d2 EXCEPT !.classes = new_classes]

\* LabelledDataset.remove_classes
RemoveClasses(d, keep) ==
    LET str_labels == StrLabels(d)
        keep_idx == Positions(str_labels, keep)
    IN  IF ~InRange(d.x, keep_idx) THEN Raise(d, "IndexError", 376)
        ELSE
        LET d1 == [d EXCEPT !.x = Take(d.x, keep_idx)]
        IN  IF ~InRange(d.names, keep_idx) THEN Raise(d1, "IndexError", 377)
            ELSE
            LET d2 == [d1 EXCEPT !.names = Take(d.names, keep_idx)]
            IN  IF ~InRange(d.speaker_indices, keep_idx)
                THEN Raise(d2, "IndexError", 378)
                ELSE
                LET d3 == [d2 EXCEPT !.speaker_indices =
                                         Take(d.speaker_indices, keep_idx)]
                IN  IF "speaker_indices" \in d3.floats
                    THEN Raise(d3, "TypeError", 379)
                    ELSE
                    LET classes == Sorted(keep \cap Range(d.classes))
                        kept == SelectSeq(str_labels, LAMBDA c : c \in keep)
                        y == [k \in 1..Len(kept) |-> Index(classes, kept[k])]
                        d4 == [d3 EXCEPT
                                 !.speaker_counts =
                                     Bincount(d3.speaker_indices,
                                              Len(d.speakers)),
                                 !.defined = @ \cup {"speaker_counts"},
                                 !.speaker_group_indices = d3.speaker_indices,
                                 !.classes = classes,
                                 !.y = y,
                                 !.floats = DtypeOf(d3, "y", y)
                                            \ {"speaker_group_indices"}]
                    IN  SetClassCounts(d4, 387)

(***************************************************************************)
(* CombinedDataset                                                         *)
(***************************************************************************)
\* the concatenation of lists[k], lists[k + 1], ... in order
RECURSIVE ConcatFrom(_, _)
ConcatFrom(lists, k) ==
    IF k > Len(lists) THEN <<>> ELSE lists[k] \o ConcatFrom(lists, k + 1)

\* number of speakers (of speaker groups) of the sources before source k
SpeakersBefore(ds, k) ==
    Len(ConcatFrom([i \in 1..(k - 1) |-> ds[i].speakers], 1))

GroupsBefore(ds, k) ==
    Len(ConcatFrom([i \in 1..(k - 1) |-> ds[i].speaker_groups], 1))

\* the speaker groups of a source taken over without the corpus prefix
PlainGroups(d) == d.speaker_groups

\* new_group in the loop of CombinedDataset.__init__: the speaker groups of
\* the source d with every speaker prefixed by the corpus
NamespacedGroups(d) ==
    [i \in 1..Len(d.speaker_groups) |->
        {d.corpus \o "_" \o sp : sp \in d.speaker_groups[i]}]

\* an index array appended without its offset
NoOffset(a, n) == a

\* a + n for an index array a (d.speaker_indices + len(self.speakers))
Offset(a, n) == [i \in 1..Len(a) |-> a[i] + n]

\* the source ds[k] with its names, speakers and groups prefixed by its
\* corpus and its speaker and group indices offset, as the loop of
\* CombinedDataset.__init__ appends them
Namespaced(ds, k) ==
    LET d == ds[k]
    IN  [d EXCEPT
           !.names = [i \in 1..Len(d.names) |-> d.corpus \o "_" \o d.names[i]],
           !.speakers =
               [i \in 1..Len(d.speakers) |-> d.corpus \o "_" \o d.speakers[i]],
           !.speaker_indices =
               Offset(d.speaker_indices, SpeakersBefore(ds, k)),
           !.speaker_groups = NamespacedGroups(d),
           !.speaker_group_indices =
               Offset(d.speaker_group_indices, GroupsBefore(ds, k))]

\* CombinedDataset.__init__(*ds, labels=...): labels is the allow-list as a
\* record [given, of], given FALSE standing for labels=None
CombinedDatasetInit(ds, labels) ==
    LET ns == [k \in 1..Len(ds) |-> Namespaced(ds, k)]
        sizes == [k \in 1..Len(ds) |-> Len(ds[k].x)]
        corpus_indices == Repeat(sizes)
        all_labels == UNION {Range(ds[k].classes) : k \in 1..Len(ds)}
        str_labels == ConcatFrom([k \in 1..Len(ds) |-> StrLabels(ds[k])], 1)
        drop_labels == all_labels \ labels.of
        keep_idx == Positions(str_labels, Range(str_labels) \ drop_labels)
        x == ConcatFrom([k \in 1..Len(ds) |-> ds[k].x], 1)
        speaker_indices ==
            ConcatFrom([k \in 1..Len(ns) |-> ns[k].speaker_indices], 1)
        d1 == [Blank EXCEPT
                 !.kind = "CombinedDataset",
                 !.corpus = "combined",
                 !.corpora = [k \in 1..Len(ds) |-> ds[k].corpus],
                 !.corpus_indices = corpus_indices,
                 !.corpus_counts = Bincount(corpus_indices, 0),
                 !.names = ConcatFrom([k \in 1..Len(ns) |-> ns[k].names], 1),
                 !.speakers =
                     ConcatFrom([k \in 1..Len(ns) |-> ns[k].speakers], 1),
                 !.speaker_groups =
                     ConcatFrom([k \in 1..Len(ns) |-> ns[k].speaker_groups], 1),
                 !.defined = {"classes", "y", "corpora", "corpus_indices",
                              "corpus_counts"}]
    IN  IF labels.given
        THEN IF ~InRange(x, keep_idx) \/ ~InRange(speaker_indices, keep_idx)
             THEN Raise(d1, "IndexError", 473)
             ELSE
             LET classes == Sorted(labels.of)
                 kept == SelectSeq(str_labels, LAMBDA c : c \notin drop_labels)
                 y == [k \in 1..Len(kept) |-> Index(classes, kept[k])]
             IN  [d1 EXCEPT
                    !.x = Take(x, keep_idx),
                    !.speaker_indices = Take(speaker_indices, keep_idx),
                    !.speaker_group_indices = Take(speaker_indices, keep_idx),
                    !.classes = classes,
                    !.y = y,
                    !.floats = DtypeOf(d1, "y", y)]
        ELSE LET classes == Sorted(all_labels)
                 y == [k \in 1..Len(str_labels) |->
                          Index(classes, str_labels[k])]
             IN  [d1 EXCEPT
                    !.x = x,
                    !.speaker_indices = speaker_indices,
                    !.speaker_group_indices = speaker_indices,
                    !.classes = classes,
                    !.y = y,
                    !.floats = DtypeOf(d1, "y", y)]

\* CombinedDataset.get_corpus_split(corpus): the positions of corpus_indices
\* that hold the offset of corpus in corpora, and the other positions
GetCorpusSplit(c, corpus) ==
    LET cond == [k \in 1..Len(c.corpus_indices) |->
                    c.corpus_indices[k] = Index(c.corpora, corpus)]
    IN  [in_corpus |-> Positions(cond, {TRUE}),
         other |-> Positions(cond, {FALSE})]

(***************************************************************************)
(* The inputs: what the backends and the annotation files deliver.         *)
(***************************************************************************)
\* the feature container of a backend: one ragged sequence per instance,
\* different for every instance of every corpus
BackendFeatures(base, names) == [k \in 1..Len(names) |-> <<base + k>>]

\* speaker annotations: none (the empty function), or a speaker per name
SpeakerAnnotations(names, speakers) ==
    {<<>>} \cup [Range(names) -> speakers]

\* allow-lists of CombinedDataset: None, or a collection of labels
AllowLists ==
    {[given |-> FALSE, of |-> {}]}
        \cup {[given |-> TRUE, of |-> L] : L \in SUBSET Labels}

\* the mappings handed to map_classes
Mappings == UNION {[K -> Labels] : K \in SUBSET Labels}

\* values an uninitialised cell of np.empty may hold
Uninitialised == {0, 7}

NotConstructed == [Blank EXCEPT !.kind = "NotConstructed"]

NoOp == [name |-> "construct", target |-> "", keep |-> {}, map |-> <<>>,
         labels |-> [given |-> FALSE, of |-> {}]]

\* the first source: a Dataset or a LabelledDataset
SourcesA ==
    {d \in
        {DatasetInit(c, NamesA, BackendFeatures(0, NamesA), spk, 0) :
            c \in {"A", "G", "H"},
            spk \in SpeakerAnnotations(NamesA, {"X", "Y"})}
        \cup
        {LabelledDatasetInit(c, NamesA, BackendFeatures(0, NamesA), spk, lab, 0) :
            c \in {"A", "G", "H"},
            spk \in SpeakerAnnotations(NamesA, {"X", "Y"}),
            lab \in [Range(NamesA) -> Labels]} :
     d.raised = ""}

\* the second source: a LabelledDataset
SourcesB ==
    {d \in
        {LabelledDatasetInit("B", NamesB, BackendFeatures(10, NamesB), spk, lab, 0) :
            spk \in [Range(NamesB) -> {"Z"}],
            lab \in [Range(NamesB) -> Labels]} :
     d.raised = ""}

Init ==
    /\ datasets \in {<<a, b>> : a \in SourcesA, b \in SourcesB}
    /\ combined = NotConstructed
    /\ op = NoOp
    /\ prev = NotConstructed
    /\ calls = 0
    /\ ragged = <<>>
    /\ norm = <<>>
    /\ alias = <<>>

(***************************************************************************)
(* The operations.  A call that raised ends the program's use of the       *)
(* object: no further call is made on it.                                  *)
(***************************************************************************)
Usable(d) == d.kind \in {"Dataset", "LabelledDataset", "CombinedDataset"}
             /\ d.raised = ""

Labelled(d) == d.kind \in {"LabelledDataset", "CombinedDataset"}

\* remove_instances as the class of d resolves it
RemoveInstances(d, keep, garbage) ==
    IF Labelled(d) THEN LabelledRemoveInstances(d, keep, garbage)
    ELSE DatasetRemoveInstances(d, keep, garbage)

KeepSets(d) == SUBSET (Range(d.names) \cup {Ghost})

SourceRemoveInstances ==
    /\ calls < MaxCalls
    /\ calls' = calls + 1
    /\ prev' = datasets[1]
    /\ combined = NotConstructed
    /\ Usable(datasets[1])
    /\ \E keep \in KeepSets(datasets[1]), garbage \in Uninitialised :
          /\ datasets' = [datasets EXCEPT
                            ![1] = RemoveInstances(@, keep, garbage)]
          /\ op' = [NoOp EXCEPT !.name = "remove_instances",
                                !.target = "source", !.keep = keep]
    /\ UNCHANGED <<combined, aux>>

SourceRemoveClasses ==
    /\ calls < MaxCalls
    /\ calls' = calls + 1
    /\ prev' = datasets[1]
    /\ combined = NotConstructed
    /\ Usable(datasets[1])
    /\ Labelled(datasets[1])
    /\ \E keep \in SUBSET Labels :
          /\ datasets' = [datasets EXCEPT ![1] = RemoveClasses(@, keep)]
          /\ op' = [NoOp EXCEPT !.name = "remove_classes",
                                !.target = "source", !.keep = keep]
    /\ UNCHANGED <<combined, aux>>

SourceMapClasses ==
    /\ calls < MaxCalls
    /\ calls' = calls + 1
    /\ prev' = datasets[1]
    /\ combined = NotConstructed
    /\ Usable(datasets[1])
    /\ Labelled(datasets[1])
    /\ \E map \in Mappings :
          /\ datasets' = [datasets EXCEPT ![1] = MapClasses(@, map)]
          /\ op' = [NoOp EXCEPT !.name = "map_classes",
                                !.target = "source", !.map = map]
    /\ UNCHANGED <<combined, aux>>

Combine ==
    /\ combined = NotConstructed
    /\ \A k \in DOMAIN datasets :
          Usable(datasets[k]) /\ datasets[k].kind = "LabelledDataset"
    /\ \E labels \in AllowLists :
          /\ combined' = CombinedDatasetInit(datasets, labels)
          /\ op' = [NoOp EXCEPT !.name = "combine",
                                !.target = "combined", !.labels = labels]
    /\ prev' = NotConstructed
    /\ UNCHANGED <<datasets, calls, aux>>

CombinedRemoveInstances ==
    /\ calls < MaxCalls
    /\ calls' = calls + 1
    /\ prev' = combined
    /\ Usable(combined)
    /\ \E keep \in KeepSets(combined), garbage \in Uninitialised :
          /\ combined' = RemoveInstances(combined, keep, garbage)
          /\ op' = [NoOp EXCEPT !.name = "remove_instances",
                                !.target = "combined", !.keep = keep]
    /\ UNCHANGED <<datasets, aux>>

CombinedRemoveClasses ==
    /\ calls < MaxCalls
    /\ calls' = calls + 1
    /\ prev' = combined
    /\ Usable(combined)
    /\ \E keep \in SUBSET Labels :
          /\ combined' = RemoveClasses(combined, keep)
          /\ op' = [NoOp EXCEPT !.name = "remove_classes",
                                !.target = "combined", !.keep = keep]
    /\ UNCHANGED <<datasets, aux>>

CombinedMapClasses ==
    /\ calls < MaxCalls
    /\ calls' = calls + 1
    /\ prev' = combined
    /\ Usable(combined)
    /\ \E map \in Mappings :
          /\ combined' = MapClasses(combined, map)
          /\ op' = [NoOp EXCEPT !.name = "map_classes",
                                !.target = "combined", !.map = map]
    /\ UNCHANGED <<datasets, aux>>

Next ==
    \/ SourceRemoveInstances
    \/ SourceRemoveClasses
    \/ SourceMapClasses
    \/ Combine
    \/ CombinedRemoveInstances
    \/ CombinedRemoveClasses
    \/ CombinedMapClasses

Spec == Init /\ [][Next]_vars

(***************************************************************************)
(* Properties                                                              *)
(***************************************************************************)
\* the dataset objects that exist and whose last call returned normally
Objects == {d \in Range(datasets) \cup {combined} : Usable(d)}

\* the object the last call was made on
Target == IF op.target = "combined" THEN combined ELSE datasets[1]

n_instances(d) == Len(d.names)

Sum(a) == LET RECURSIVE S(_)
              S(k) == IF k = 0 THEN 0 ELSE a[k] + S(k - 1)
          IN  S(Len(a))

\* the entries of a at the 0-based offsets in S, in their order in a
AtOffsets(a, S) == Take(a, Ascending(S))

SpeakerIndicesValid(d) ==
    /\ Len(d.speaker_indices) = Len(d.names)
    /\ \A k \in DOMAIN d.speaker_indices :
          d.speaker_indices[k] >= 0 /\ d.speaker_indices[k] < Len(d.speakers)

\* C1: in every dataset, after construction and after every call that
\* returned, speaker_indices has one entry per name and every entry is a
\* valid offset into the speaker list
C1_SpeakerIndicesInvariant == \A d \in Objects : SpeakerIndicesValid(d)

SpeakerCountsValid(d) ==
    /\ "speaker_counts" \in d.defined
    /\ Len(d.speaker_counts) = Len(d.speakers)
    /\ \A i \in DOMAIN d.speaker_counts :
          d.speaker_counts[i] = Count(d.speaker_indices, i - 1)
    /\ Sum(d.speaker_counts) = n_instances(d)

\* C2: in every dataset, after construction and after every call that
\* returned, speaker_counts is defined, has one entry per speaker, counts
\* the instances of each speaker and sums to n_instances
C2_SpeakerCountsInvariant == \A d \in Objects : SpeakerCountsValid(d)

ClassesValid(d) ==
    /\ \A i, j \in DOMAIN d.classes :
          i < j => Rank(d.classes[i]) < Rank(d.classes[j])
    /\ \A k \in DOMAIN d.y : d.y[k] >= 0 /\ d.y[k] < Len(d.classes)
    /\ "class_counts" \in d.defined
    /\ Sum(d.class_counts) = n_instances(d)

\* C3: in every labelled dataset, after construction and after every call
\* that returned, the class list is sorted without duplicates, every entry
\* of y indexes it, class_counts is defined and sums to n_instances
C3_ClassInvariant == \A d \in Objects : Labelled(d) => ClassesValid(d)

\* the 0-based offset of the source whose instance the name n of the
\* combination is
SourceOf(n) ==
    (CHOOSE k \in DOMAIN datasets :
        \E m \in Range(datasets[k].names) :
            n = datasets[k].corpus \o "_" \o m) - 1

CorpusValid(c) ==
    /\ Len(c.corpus_indices) = Len(c.names)
    /\ \A k \in DOMAIN c.corpus_indices :
          /\ c.corpus_indices[k] >= 0
          /\ c.corpus_indices[k] < Len(c.corpora)
          /\ c.corpus_indices[k] = SourceOf(c.names[k])
    /\ Sum(c.corpus_counts) = n_instances(c)

\* C4: in a CombinedDataset, after construction and after every call that
\* returned, corpus_indices has one entry per name, every entry is a valid
\* offset into corpora and names the source of its instance, and
\* corpus_counts sums to n_instances
C4_CorpusInvariant == Usable(combined) => CorpusValid(combined)

\* C5: after remove_instances(keep) the names are the prior names that are
\* in keep, in their prior order, and x holds the features of the same
\* instances in the same order
C5_RemoveInstancesFilters ==
    op.name = "remove_instances" =>
        LET idx == KeepIdx(prev, op.keep)
        IN  /\ Target.names = SelectSeq(prev.names, LAMBDA n : n \in op.keep)
            /\ InRange(prev.x, idx)
            /\ Target.x = Take(prev.x, idx)

\* whether the last call, a remove_instances, entered Dataset.remove_instances
\* (a LabelledDataset runs lines 331-341 before it calls the base method)
BaseRan == op.name = "remove_instances"
           /\ (Target.raised = "" \/ Target.at \notin {332, 341})

\* C6: when Dataset.remove_instances(keep) leaves fewer distinct speakers
\* than the speaker list had, the new speaker list is the prior speakers
\* that still have a kept instance, in their prior order, and every kept
\* instance maps through the new speaker_indices to the speaker label it
\* had before the call
C6_SpeakerCompaction ==
    BaseRan =>
        LET idx == KeepIdx(prev, op.keep)
        IN  /\ InRange(prev.speaker_indices, idx)
            /\ LET remaining == Range(Take(prev.speaker_indices, idx))
               IN  Cardinality(remaining) < Len(prev.speakers) =>
                     /\ Target.speakers = AtOffsets(prev.speakers, remaining)
                     /\ Len(Target.speaker_indices) = Len(idx)
                     /\ \A k \in DOMAIN idx :
                           Target.speakers[Target.speaker_indices[k] + 1]
                             = prev.speakers[prev.speaker_indices[idx[k] + 1] + 1]

\* C7: LabelledDataset.remove_instances(keep) keeps the class label string
\* of every surviving instance; when fewer distinct classes remain than
\* the class list had, the class list becomes the classes still in use, in
\* their prior order, otherwise the class list is unchanged and y is the
\* slice of the prior y at the kept positions; class_counts is recomputed
\* from the new y
C7_LabelledRemoveInstances ==
    op.name = "remove_instances" /\ Labelled(prev) =>
        LET idx == KeepIdx(prev, op.keep)
        IN  /\ InRange(prev.y, idx)
            /\ Len(Target.y) = Len(idx)
            /\ \A k \in DOMAIN idx :
                  Target.classes[Target.y[k] + 1]
                    = prev.classes[prev.y[idx[k] + 1] + 1]
            /\ LET new_cl == Range(Take(prev.y, idx))
               IN  IF Cardinality(new_cl) < Len(prev.classes)
                   THEN Target.classes = AtOffsets(prev.classes, new_cl)
                   ELSE /\ Target.classes = prev.classes
                        /\ Target.y = Take(prev.y, idx)
            /\ "class_counts" \in Target.defined
            /\ Target.class_counts = Bincount(Target.y, 0)

\* C8: remove_classes(keep) retains the instances whose class label is in
\* keep, in their prior order, with names, x, speaker_indices and y
\* filtered to the same positions; the class list becomes the sorted prior
\* classes that are in keep; speaker_counts and class_counts are
\* recomputed for the remaining instances
C8_RemoveClasses ==
    op.name = "remove_classes" =>
        /\ LET pos == Positions(StrLabels(prev), op.keep)
           IN  /\ Target.names = Take(prev.names, pos)
               /\ Target.x = Take(prev.x, pos)
               /\ Target.speaker_indices = Take(prev.speaker_indices, pos)
               /\ Len(Target.y) = Len(pos)
               /\ \A k \in DOMAIN pos :
                     Target.classes[Target.y[k] + 1]
                       = prev.classes[prev.y[pos[k] + 1] + 1]
        /\ Target.classes = Sorted(op.keep \cap Range(prev.classes))
        /\ "speaker_counts" \in Target.defined
        /\ Target.speaker_counts
             = Bincount(Target.speaker_indices, Len(Target.speakers))
        /\ "class_counts" \in Target.defined
        /\ Target.class_counts = Bincount(Target.y, 0)

\* C9: map_classes(mapping) relabels every instance of class c to
\* mapping.get(c, c), sets the class list to the sorted set of the mapped
\* names and recomputes y and class_counts against it; with a mapping that
\* maps every class to itself it leaves classes, y and class_counts as
\* they were
C9_MapClasses ==
    op.name = "map_classes" =>
        /\ Len(Target.y) = Len(prev.y)
        /\ \A k \in DOMAIN prev.y :
              Target.classes[Target.y[k] + 1]
                = MapGet(op.map, prev.classes[prev.y[k] + 1])
        /\ Target.classes
             = Sorted({MapGet(op.map, c) : c \in Range(prev.classes)})
        /\ "class_counts" \in Target.defined
        /\ Target.class_counts = Bincount(Target.y, 0)
        /\ (\A c \in Range(prev.classes) : MapGet(op.map, c) = c) =>
              /\ Target.classes = prev.classes
              /\ Target.y = prev.y
              /\ "class_counts" \in prev.defined
              /\ Target.class_counts = prev.class_counts

\* number of instances of the sources before source k
InstancesBefore(k) ==
    Sum([i \in 1..(k - 1) |-> Len(datasets[i].names)])

\* number of speakers of the sources before source k
SpeakerOffset(k) ==
    Sum([i \in 1..(k - 1) |-> Len(datasets[i].speakers)])

\* C10: a CombinedDataset built without an allow-list has as many
\* instances as the sources together, in concatenation order; its names
\* and speakers are those of the sources prefixed by the corpus, the
\* speaker list the concatenation of the sources' speaker lists; every
\* instance keeps its features, its speaker and its class label, and the
\* class list is the sorted union of the sources' classes
C10_CombineWithoutAllowList ==
    op.name = "combine" /\ ~op.labels.given =>
        /\ combined.raised = ""
        /\ n_instances(combined) = InstancesBefore(Len(datasets) + 1)
        /\ Len(combined.x) = n_instances(combined)
        /\ Len(combined.speaker_indices) = n_instances(combined)
        /\ Len(combined.y) = n_instances(combined)
        /\ Len(combined.corpus_indices) = n_instances(combined)
        /\ Len(combined.speakers) = SpeakerOffset(Len(datasets) + 1)
        /\ \A i, j \in DOMAIN combined.classes :
              i < j => Rank(combined.classes[i]) < Rank(combined.classes[j])
        /\ Range(combined.classes)
             = UNION {Range(datasets[k].classes) : k \in DOMAIN datasets}
        /\ \A k \in DOMAIN datasets :
              LET d == datasets[k]
              IN  /\ \A s \in DOMAIN d.speakers :
                        combined.speakers[SpeakerOffset(k) + s]
                          = d.corpus \o "_" \o d.speakers[s]
                  /\ \A j \in DOMAIN d.names :
                        LET g == InstancesBefore(k) + j
                        IN  /\ combined.names[g] = d.corpus \o "_" \o d.names[j]
                            /\ combined.x[g] = d.x[j]
                            /\ combined.corpus_indices[g] = k - 1
                            /\ combined.speakers[combined.speaker_indices[g] + 1]
                                 = d.corpus \o "_"
                                     \o d.speakers[d.speaker_indices[j] + 1]
                            /\ combined.classes[combined.y[g] + 1]
                                 = d.classes[d.y[j] + 1]

\* a combination of three speakers loses one of them and is renumbered
C6_Witness ==
    /\ op.name = "remove_instances"
    /\ Target.raised = ""
    /\ prev.speakers = <<"A_X", "A_Y", "B_Z">>
    /\ Target.names = <<"A_a2", "B_b1">>
    /\ Target.speakers = <<"A_Y", "B_Z">>
    /\ Target.speaker_indices = <<0, 1>>

\* Scenario A: A holds a1 (speaker X, happy) and a2 (speaker Y, sad), B
\* holds b1 (speaker Z, happy), combined without an allow-list
C10_Witness ==
    /\ op.name = "combine" /\ ~op.labels.given
    /\ datasets[1].corpus = "A" /\ datasets[2].corpus = "B"
    /\ combined.names = <<"A_a1", "A_a2", "B_b1">>
    /\ combined.classes = <<"happy", "sad">>
    /\ combined.y = <<0, 1, 0>>
    /\ combined.corpus_indices = <<0, 0, 1>>
    /\ combined.speakers = <<"A_X", "A_Y", "B_Z">>
    /\ combined.speaker_indices = <<0, 1, 2>>

\* the 1-based positions, in the concatenation of the sources, of the
\* instances whose class label is in the set allowed
AllowedPositions(allowed) ==
    UNION {{InstancesBefore(k) + j :
               j \in {i \in DOMAIN datasets[k].names :
                         datasets[k].classes[datasets[k].y[i] + 1] \in allowed}} :
           k \in DOMAIN datasets}

\* the source (1-based) and the position in it of the instance at the
\* 1-based position g of the concatenation
SourceAt(g) ==
    CHOOSE k \in DOMAIN datasets :
        g > InstancesBefore(k) /\ g <= InstancesBefore(k + 1)

\* C11: a CombinedDataset built with an allow-list holds exactly the source
\* instances whose class is allowed, in concatenation order; names, x,
\* speaker_indices, corpus_indices and y have one entry per such instance
\* and describe it; corpus_counts counts them; the class list is sorted and
\* holds no class outside the allow-list
C11_CombineWithAllowList ==
    op.name = "combine" /\ op.labels.given =>
        LET kept == Ascending(AllowedPositions(op.labels.of))
        IN  /\ combined.raised = ""
            /\ Len(combined.names) = Len(kept)
            /\ Len(combined.x) = Len(kept)
            /\ Len(combined.speaker_indices) = Len(kept)
            /\ Len(combined.corpus_indices) = Len(kept)
            /\ Len(combined.y) = Len(kept)
            /\ Sum(combined.corpus_counts) = Len(kept)
            /\ \A t \in DOMAIN kept :
                  LET k == SourceAt(kept[t])
                      d == datasets[k]
                      j == kept[t] - InstancesBefore(k)
                  IN  /\ combined.names[t] = d.corpus \o "_" \o d.names[j]
                      /\ combined.x[t] = d.x[j]
                      /\ combined.corpus_indices[t] = k - 1
                      /\ combined.speakers[combined.speaker_indices[t] + 1]
                           = d.corpus \o "_"
                               \o d.speakers[d.speaker_indices[j] + 1]
                      /\ combined.classes[combined.y[t] + 1]
                           = d.classes[d.y[j] + 1]
            /\ \A i, j \in DOMAIN combined.classes :
                  i < j => Rank(combined.classes[i]) < Rank(combined.classes[j])
            /\ Range(combined.classes) \subseteq op.labels.of

\* C12: in a CombinedDataset whose last call returned, for every corpus of
\* corpora, get_corpus_split gives two disjoint position lists whose union
\* is 0 .. n_instances - 1, the first being the positions of the instances
\* of that corpus
C12_CorpusSplit ==
    Usable(combined) =>
        \A corpus \in Range(combined.corpora) :
            LET split == GetCorpusSplit(combined, corpus)
                in_corpus == Range(split.in_corpus)
                other == Range(split.other)
            IN  /\ in_corpus \cap other = {}
                /\ in_corpus \cup other = 0..(n_instances(combined) - 1)
                /\ in_corpus
                     = {g \in 0..(n_instances(combined) - 1) :
                           combined.corpora[SourceOf(combined.names[g + 1]) + 1]
                             = corpus}

GroupsPartition(d) ==
    /\ \A sp \in Range(d.speakers) :
          Cardinality({g \in DOMAIN d.speaker_groups :
                          sp \in d.speaker_groups[g]}) = 1
    /\ \A g \in DOMAIN d.speaker_groups :
          d.speaker_groups[g] \subseteq Range(d.speakers)

C18_NoSpeakerLost ==
    op.name = "remove_instances" =>
        LET idx == KeepIdx(prev, op.keep)
        IN  (/\ InRange(prev.speaker_indices, idx)
             /\ Cardinality(Range(Take(prev.speaker_indices, idx)))
                  >= Len(prev.speakers)) =>
                /\ Target.raised = ""
                /\ Target.speakers = prev.speakers
                /\ Target.speaker_groups = prev.speaker_groups
                /\ Target.speaker_indices = Take(prev.speaker_indices, idx)
                /\ InRange(prev.speaker_group_indices, idx)
                /\ Target.speaker_group_indices
                     = Take(prev.speaker_group_indices, idx)

GroupIndicesValid(d) ==
    /\ Len(d.speaker_group_indices) = n_instances(d)
    /\ \A k \in DOMAIN d.speaker_group_indices :
          /\ d.speaker_group_indices[k] >= 0
          /\ d.speaker_group_indices[k] < Len(d.speaker_groups)
    /\ Len(d.speaker_indices) = n_instances(d)
    /\ \A k \in DOMAIN d.speaker_indices :
          d.speakers[d.speaker_indices[k] + 1]
            \in d.speaker_groups[d.speaker_group_indices[k] + 1]

\* C19: in every dataset, after construction and after every call that
\* returned, speaker_group_indices has one entry per instance, every entry
\* is a valid offset into speaker_groups, and the speaker of every instance
\* is a member of the group its entry names
C19_GroupIndicesInvariant == \A d \in Objects : GroupIndicesValid(d)

LabelViewValid(d) ==
    /\ "labels" \in d.defined
    /\ Len(d.labels_all) = n_instances(d)
    /\ d.labels_all = d.y

\* C20: in every labelled dataset, after construction and after every call
\* that returned, labels["all"] is defined, has one entry per instance and
\* equals y
C20_LabelView == \A d \in Objects : Labelled(d) => LabelViewValid(d)

(***************************************************************************)
(* _make_flat and _make_ragged, the round trip that per-group              *)
(* normalisation makes with a ragged feature container.  A container is a  *)
(* sequence of sequences of frames, the time axis being the inner one.     *)
(***************************************************************************)
\* number of sequences of a container, at most
MaxSeqs == 3

\* number of frames of a sequence, at most
MaxFrames == 2

\* the frames (feature vectors) a sequence is made of
Frames == {"f", "g"}

\* s[st:end] with Python's clamping of the bounds
Slice(s, st, end) ==
    LET e == IF end > Len(s) THEN Len(s) ELSE end
    IN  IF st >= e THEN <<>> ELSE SubSeq(s, st + 1, e)

\* the lengths themselves taken as split points
NoCumsum(slices) == slices

\* np.cumsum(slices)
Cumsum(slices) ==
    LET RECURSIVE Acc(_)
        Acc(k) == IF k = 0 THEN 0 ELSE slices[k] + Acc(k - 1)
    IN  [k \in 1..Len(slices) |-> Acc(k)]

\* np.split(flat, indices, axis=0): the pieces between consecutive split
\* points, the first from 0 and the last to the end
Split(flat, indices) ==
    LET div_points == <<0>> \o indices \o <<Len(flat)>>
    IN  [i \in 1..(Len(indices) + 1) |->
            Slice(flat, div_points[i], div_points[i + 1])]

\* _make_flat(a): np.concatenate raises ValueError on an empty container
make_flat(a) ==
    IF a = <<>>
    THEN [raised |-> "ValueError", flat |-> <<>>, slices |-> <<>>]
    ELSE [raised |-> "",
          flat |-> ConcatFrom(a, 1),
          slices |-> [k \in 1..Len(a) |-> Len(a[k])]]

\* _make_ragged(flat, slices)
make_ragged(flat, slices) ==
    LET indices == Cumsum(slices)
    IN  Split(flat, SubSeq(indices, 1, Len(indices) - 1))

\* the containers of at most MaxSeqs sequences of at most MaxFrames frames
SequencesUpTo(n) == UNION {[1..l -> Frames] : l \in 0..n}

Containers == UNION {[1..n -> SequencesUpTo(MaxFrames)] : n \in 0..MaxSeqs}

\* the variables the round trip leaves alone
core == <<datasets, combined, op, prev, calls, norm, alias>>

RaggedInit ==
    /\ datasets = <<>>
    /\ combined = NotConstructed
    /\ op = NoOp
    /\ prev = NotConstructed
    /\ calls = 0
    /\ ragged \in {[stage |-> "input", a |-> a, flat |-> <<>>,
                    slices |-> <<>>, arrs |-> <<>>] : a \in Containers}
    /\ norm = <<>>
    /\ alias = <<>>

Flatten ==
    /\ ragged.stage = "input"
    /\ LET r == make_flat(ragged.a)
       IN  ragged' = [ragged EXCEPT
                        !.stage = IF r.raised = "" THEN "flat" ELSE r.raised,
                        !.flat = r.flat,
                        !.slices = r.slices]
    /\ UNCHANGED core

Restore ==
    /\ ragged.stage = "flat"
    /\ ragged' = [ragged EXCEPT
                    !.stage = "restored",
                    !.arrs = make_ragged(ragged.flat, ragged.slices)]
    /\ UNCHANGED core

RaggedNext ==
    \/ Flatten
    \/ Restore

SpecRagged == RaggedInit /\ [][RaggedNext]_vars

\* C17: for every non-empty ragged container a, _make_ragged(*_make_flat(a))
\* has as many sequences as a and its i-th sequence equals a[i], frame for
\* frame
C17_RoundTrip ==
    ragged /= <<>> /\ ragged.stage = "restored" =>
        /\ ragged.a /= <<>>
        /\ Len(ragged.arrs) = Len(ragged.a)
        /\ \A i \in DOMAIN ragged.a :
              /\ Len(ragged.arrs[i]) = Len(ragged.a[i])
              /\ \A t \in DOMAIN ragged.a[i] :
                    ragged.arrs[i][t] = ragged.a[i][t]

\* a container with a zero-length sequence between two others went through
\* the round trip
C17_Witness ==
    /\ ragged /= <<>>
    /\ ragged.stage = "restored"
    /\ ragged.a = <<<<"f">>, <<>>, <<"g", "f">>>>
    /\ ragged.arrs = ragged.a

(***************************************************************************)
(* Normalisation.  The features are numbers here: a dense container holds  *)
(* one feature value per instance, a ragged container a sequence of frames *)
(* per instance, a frame being one feature value.  The layout of a         *)
(* container ("dense" or "ragged") stands for the outcome of the test      *)
(* x.dtype == object or len(x.shape) == 3.                                 *)
(***************************************************************************)
\* the feature values of the backends
Values == {0, 1, 2}

\* the sequences of a ragged container of the backends
ValueSequences == {<<>>, <<1>>, <<2, 0>>}

Layouts == {"dense", "ragged"}

Min(S) == CHOOSE m \in S : \A v \in S : m <= v

\* normaliser.fit_transform(X) of a normaliser that is fitted on X alone and
\* moves the minimum of X to 0; a scikit-learn scaler raises ValueError when
\* it is fitted on no sample
fit_transform(X) ==
    IF X = <<>> THEN [raised |-> "ValueError", out |-> <<>>]
    ELSE [raised |-> "", out |-> [k \in DOMAIN X |-> X[k] - Min(Range(X))]]

\* a[idx] = vals, idx a list of distinct 0-based indices
Put(a, idx, vals) ==
    [k \in DOMAIN a |->
        IF \E j \in DOMAIN idx : idx[j] + 1 = k
        THEN vals[CHOOSE j \in DOMAIN idx : idx[j] + 1 = k]
        ELSE a[k]]

\* the body of the loops over the groups: the instances at idx are
\* normalised together, at being the line of the ragged branch
NormaliseGroup(d, layout, idx, at) ==
    IF ~InRange(d.x, idx) THEN Raise(d, "IndexError", at)
    ELSE IF layout = "ragged"
    THEN LET r == make_flat(Take(d.x, idx))
             n == fit_transform(r.flat)
         IN  IF r.raised /= "" THEN Raise(d, r.raised, at)
             ELSE IF n.raised /= "" THEN Raise(d, n.raised, at + 1)
             ELSE [d EXCEPT !.x = Put(d.x, idx, make_ragged(n.out, r.slices))]
    ELSE LET n == fit_transform(Take(d.x, idx))
         IN  IF n.raised /= "" THEN Raise(d, n.raised, at + 4)
             ELSE [d EXCEPT !.x = Put(d.x, idx, n.out)]

\* every position of the container
AllPositions(d, sp) == [k \in 1..Len(d.x) |-> k - 1]

\* np.nonzero(self.speaker_indices == sp)[0]
SpeakerPositions(d, sp) == Positions(d.speaker_indices, {sp})

\* the loop of scheme "speaker" from speaker sp on
RECURSIVE NormaliseSpeakers(_, _, _)
NormaliseSpeakers(d, layout, sp) ==
    IF sp >= Len(d.speakers) THEN d
    ELSE IF "speaker_counts" \notin d.defined
    THEN Raise(d, "AttributeError", 165)
    ELSE IF sp >= Len(d.speaker_counts) THEN Raise(d, "IndexError", 165)
    ELSE IF d.speaker_counts[sp + 1] = 0
    THEN NormaliseSpeakers(d, layout, sp + 1)
    ELSE LET d1 == NormaliseGroup(d, layout, SpeakerPositions(d, sp), 169)
         IN  IF d1.raised /= "" THEN d1
             ELSE NormaliseSpeakers(d1, layout, sp + 1)

\* Dataset.normalise(normaliser, scheme)
DatasetNormalise(d, scheme, layout) ==
    IF scheme = "all"
    THEN IF layout = "ragged"
         THEN LET r == make_flat(d.x)
                  n == fit_transform(r.flat)
              IN  IF r.raised /= "" THEN Raise(d, r.raised, 156)
                  ELSE IF n.raised /= "" THEN Raise(d, n.raised, 157)
                  ELSE [d EXCEPT !.x = make_ragged(n.out, r.slices)]
         ELSE LET n == fit_transform(d.x)
              IN  IF n.raised /= "" THEN Raise(d, n.raised, 161)
                  ELSE [d EXCEPT !.x = n.out]
    ELSE IF scheme = "speaker" THEN NormaliseSpeakers(d, layout, 0)
    ELSE d

\* the loop of scheme "corpus" from the corpus numbered corpus on
RECURSIVE NormaliseCorpora(_, _, _)
NormaliseCorpora(d, layout, corpus) ==
    IF corpus >= Len(d.corpora) THEN d
    ELSE LET idx == Positions(d.corpus_indices, {corpus})
             d1 == NormaliseGroup(d, layout, idx, 521)
         IN  IF d1.raised /= "" THEN d1
             ELSE NormaliseCorpora(d1, layout, corpus + 1)

\* CombinedDataset.normalise(normaliser, scheme)
CombinedNormalise(d, scheme, layout) ==
    IF scheme = "corpus" THEN NormaliseCorpora(d, layout, 0)
    ELSE DatasetNormalise(d, scheme, layout)

\* normalise as the class of d resolves it
Normalise(d, scheme, layout) ==
    IF d.kind = "CombinedDataset" THEN CombinedNormalise(d, scheme, layout)
    ELSE DatasetNormalise(d, scheme, layout)

(***************************************************************************)
(* Two datasets that go through the same calls and differ in nothing but   *)
(* their features, up to a call of normalise on both: the second source is *)
(* combined with them or not, then remove_classes is called or not, then   *)
(* remove_instances or not.                                                *)
(***************************************************************************)
Schemes == {"all", "speaker", "corpus"}

\* the feature containers a backend delivers for names, in a layout
FeatureContainers(names, layout) ==
    [1..Len(names) -> IF layout = "dense" THEN Values ELSE ValueSequences]

\* the features of the second source in the first of the two combinations
SecondFeatures(layout) ==
    [k \in 1..Len(NamesB) |-> IF layout = "dense" THEN 1 ELSE <<1>>]

\* the variables normalisation leaves alone
rest == <<datasets, combined, op, prev, calls, ragged, alias>>

\* the pairs of datasets of a layout that construction delivers
Pairs(layout) ==
    {n \in
        {[layout |-> layout,
          d |-> <<LabelledDatasetInit("A", NamesA, x1, spk, lab, 0),
                  LabelledDatasetInit("A", NamesA, x2, spk, lab, 0)>>,
          pre |-> <<>>, stage |-> "built", scheme |-> "", done |-> {}] :
            spk \in SpeakerAnnotations(NamesA, {"X", "Y"}),
            lab \in [Range(NamesA) -> Labels],
            x1 \in FeatureContainers(NamesA, layout),
            x2 \in FeatureContainers(NamesA, layout)} :
     n.d[1].raised = ""}

NormInit ==
    /\ datasets = <<>>
    /\ combined = NotConstructed
    /\ op = NoOp
    /\ prev = NotConstructed
    /\ calls = 0
    /\ ragged = <<>>
    /\ alias = <<>>
    /\ \/ norm \in Pairs("dense")
       \/ norm \in Pairs("ragged")

\* both datasets can take a further call
Ready ==
    /\ norm.stage = "built"
    /\ Usable(norm.d[1])
    /\ Usable(norm.d[2])

\* the second source joins both datasets in a CombinedDataset
NormCombine ==
    /\ Ready
    /\ norm.d[1].kind = "LabelledDataset"
    /\ norm.done = {}
    /\ \E xb \in {b \in [1..2 -> FeatureContainers(NamesB, norm.layout)] :
                    b[1] = SecondFeatures(norm.layout)} :
          norm' = [norm EXCEPT
              !.d = [i \in 1..2 |->
                      CombinedDatasetInit(
                          <<norm.d[i],
                            LabelledDatasetInit("B", NamesB, xb[i],
                                [n \in Range(NamesB) |-> "Z"],
                                [n \in Range(NamesB) |-> "happy"], 0)>>,
                          [given |-> FALSE, of |-> {}])]]
    /\ UNCHANGED rest

NormRemoveClasses ==
    /\ Ready
    /\ norm.done = {}
    /\ \E keep \in SUBSET Labels :
          norm' = [norm EXCEPT
              !.d = [i \in 1..2 |-> RemoveClasses(norm.d[i], keep)],
              !.done = @ \cup {"remove_classes"}]
    /\ UNCHANGED rest

NormRemoveInstances ==
    /\ Ready
    /\ "remove_instances" \notin norm.done
    /\ \E keep \in SUBSET Range(norm.d[1].names) :
          norm' = [norm EXCEPT
              !.d = [i \in 1..2 |-> RemoveInstances(norm.d[i], keep, 0)],
              !.done = @ \cup {"remove_instances"}]
    /\ UNCHANGED rest

NormNormalise ==
    /\ Ready
    /\ \E scheme \in Schemes :
          norm' = [norm EXCEPT
              !.d = [i \in 1..2 |-> Normalise(norm.d[i], scheme, norm.layout)],
              !.pre = norm.d,
              !.stage = "normalised",
              !.scheme = scheme]
    /\ UNCHANGED rest

NormNext ==
    \/ NormCombine
    \/ NormRemoveClasses
    \/ NormRemoveInstances
    \/ NormNormalise

SpecNorm == NormInit /\ [][NormNext]_vars

\* the feature values of the instances of x at the 0-based positions idx
GroupValues(x, idx, layout) ==
    IF layout = "dense" THEN {x[idx[k] + 1] : k \in DOMAIN idx}
    ELSE UNION {Range(x[idx[k] + 1]) : k \in DOMAIN idx}

\* the instances at idx are normalised as one group: the least of their
\* feature values is 0
GroupNormalised(x, idx, layout) ==
    /\ InRange(x, idx)
    /\ GroupValues(x, idx, layout) /= {} => Min(GroupValues(x, idx, layout)) = 0

\* the 0-based positions of the instances of the corpus numbered c, which
\* the names of a combination tell
CorpusPositions(d, c) ==
    Ascending({k - 1 : k \in {j \in DOMAIN d.names :
        \E m \in Range(NamesA) \cup Range(NamesB) :
            d.names[j] = d.corpora[c + 1] \o "_" \o m}})

HasEmptySpeaker(d) ==
    \E sp \in 0..(Len(d.speakers) - 1) :
        Positions(d.speaker_indices, {sp}) = <<>>

HasEmptyCorpus(d) ==
    \E c \in 0..(Len(d.corpora) - 1) : CorpusPositions(d, c) = <<>>

\* C16: normalise with scheme "speaker" on a dataset with a speaker that has
\* no instance, and with scheme "corpus" on a combination with a corpus that
\* has no instance, returns without raising and leaves every group that has
\* instances normalised
C16_EmptyGroupsSkipped ==
    norm /= <<>> /\ norm.stage = "normalised" =>
        LET before == norm.pre[1]
            after == norm.d[1]
        IN  /\ norm.scheme = "speaker" /\ HasEmptySpeaker(before) =>
                /\ after.raised = ""
                /\ \A sp \in 0..(Len(after.speakers) - 1) :
                      GroupNormalised(after.x,
                          Positions(after.speaker_indices, {sp}), norm.layout)
            /\ norm.scheme = "corpus" /\ before.kind = "CombinedDataset"
                    /\ HasEmptyCorpus(before) =>
                /\ after.raised = ""
                /\ \A c \in 0..(Len(after.corpora) - 1) :
                      GroupNormalised(after.x, CorpusPositions(after, c),
                                      norm.layout)

\* the image of the sequence or value v under the transform fitted on the
\* instances of x at idx
Shifted(v, x, idx, layout) ==
    IF layout = "dense" THEN v - Min(GroupValues(x, idx, layout))
    ELSE [t \in DOMAIN v |-> v[t] - Min(GroupValues(x, idx, layout))]

\* C15: when normalise(scheme="speaker") has returned on two datasets that
\* differ in their features only, then for every speaker s on whose
\* instances the two agreed before the call, the features of the instances
\* of s are the same in both after it; and every instance is at its position
\* with its number of frames, holding its own features as they were or as
\* the transform fitted on its speaker's instances maps them
C15_SpeakerIndependence ==
    norm /= <<>> /\ norm.stage = "normalised" /\ norm.scheme = "speaker"
        /\ norm.d[1].raised = "" /\ norm.d[2].raised = "" =>
        /\ \A sp \in 0..(Len(norm.pre[1].speakers) - 1) :
              LET idx == Positions(norm.pre[1].speaker_indices, {sp})
              IN  InRange(norm.pre[1].x, idx)
                      /\ Take(norm.pre[1].x, idx) = Take(norm.pre[2].x, idx) =>
                  Take(norm.d[1].x, idx) = Take(norm.d[2].x, idx)
        /\ \A i \in 1..2 :
              /\ Len(norm.d[i].x) = Len(norm.pre[i].x)
              /\ norm.d[i].names = norm.pre[i].names
              /\ norm.d[i].speaker_indices = norm.pre[i].speaker_indices
              /\ \A sp \in 0..(Len(norm.pre[i].speakers) - 1) :
                    LET idx == Positions(norm.pre[i].speaker_indices, {sp})
                    IN  InRange(norm.pre[i].x, idx) =>
                        \A k \in DOMAIN idx :
                            LET v == norm.pre[i].x[idx[k] + 1]
                                w == norm.d[i].x[idx[k] + 1]
                            IN  /\ norm.layout = "ragged" => Len(w) = Len(v)
                                /\ \/ w = v
                                   \/ w = Shifted(v, norm.pre[i].x, idx,
                                                  norm.layout)

\* normalise(scheme="speaker") returned on two datasets with a speaker on
\* whose instances they agreed and whose features it changed, the features
\* of the other instances being different in the two
C15_Witness ==
    /\ norm /= <<>>
    /\ norm.stage = "normalised"
    /\ norm.scheme = "speaker"
    /\ norm.d[1].raised = ""
    /\ norm.d[2].raised = ""
    /\ \E sp \in 0..(Len(norm.pre[1].speakers) - 1) :
          LET idx == Positions(norm.pre[1].speaker_indices, {sp})
          IN  /\ InRange(norm.pre[1].x, idx)
              /\ idx /= <<>>
              /\ Take(norm.pre[1].x, idx) = Take(norm.pre[2].x, idx)
              /\ Take(norm.d[1].x, idx) /= Take(norm.pre[1].x, idx)
              /\ \E k \in DOMAIN norm.pre[1].x :
                    /\ \A j \in DOMAIN idx : idx[j] + 1 /= k
                    /\ norm.pre[1].x[k] /= norm.pre[2].x[k]

(***************************************************************************)
(* Object identity.  The heap is a sequence of mutable objects (lists and  *)
(* arrays), an address being an index into it.  A dataset holds the        *)
(* addresses of its feature-name list, its names, its feature container,   *)
(* its speakers, its speaker_indices and its y.  A dense container is an   *)
(* array of feature values; a ragged container is an array of the          *)
(* addresses of the arrays of its instances.  The sources are combined     *)
(* first; the calls and the in-place changes follow.                       *)
(***************************************************************************)
\* number of calls and in-place changes a run makes on the combination and
\* its sources
MaxSteps == 2

\* the value an in-place change writes into an instance
Written == 5

NoObject == [features |-> 0, names |-> 0, x |-> 0, speakers |-> 0,
             speaker_indices |-> 0, y |-> 0, corpus |-> ""]

\* the heap and the two sources after their construction, in a layout
SourceHeap(layout) ==
    <<  <<"f1">>, <<"f1">>,                 \* 1, 2: feature_names
        <<"a1", "a2">>, <<"b1">>,           \* 3, 4: names
        IF layout = "dense" THEN <<1, 2>> ELSE <<11, 12>>,    \* 5: x of A
        IF layout = "dense" THEN <<1>> ELSE <<13>>,           \* 6: x of B
        <<0, 1>>, <<0>>,                    \* 7, 8: speaker_indices
        <<0, 1>>, <<0>>,                    \* 9, 10: y
        <<1>>, <<2, 0>>, <<1>>,             \* 11, 12, 13: instances
        <<"X", "Y">>, <<"Z">>  >>           \* 14, 15: speakers

SourceObjects ==
    [A |-> [features |-> 1, names |-> 3, x |-> 5, speakers |-> 14,
            speaker_indices |-> 7, y |-> 9, corpus |-> "A"],
     B |-> [features |-> 2, names |-> 4, x |-> 6, speakers |-> 15,
            speaker_indices |-> 8, y |-> 10, corpus |-> "B"],
     C |-> NoObject]

\* the address a new object gets
New(heap) == Len(heap) + 1

\* the features of the instances of o, by value
Deep(heap, o, layout) ==
    IF layout = "dense" THEN heap[o.x]
    ELSE [k \in DOMAIN heap[o.x] |-> heap[heap[o.x][k]]]

\* what the properties of the dataset o deliver, by value
Observe(heap, o, layout) ==
    IF o = NoObject THEN <<>>
    ELSE [features |-> heap[o.features], names |-> heap[o.names],
          x |-> Deep(heap, o, layout), speakers |-> heap[o.speakers],
          speaker_indices |-> heap[o.speaker_indices], y |-> heap[o.y]]

\* the state after a step on the dataset called target that leaves the heap
\* h and the objects objs
After(h, objs, target) ==
    [alias EXCEPT
        !.heap = h, !.objs = objs, !.last = target, !.steps = @ + 1,
        !.seen = [t \in {"A", "B", "C"} |->
                    Observe(alias.heap, alias.objs[t], alias.layout)]]

\* the variables the steps on the heap leave alone
others == <<datasets, combined, op, prev, calls, ragged, norm>>

AliasInit ==
    /\ datasets = <<>>
    /\ combined = NotConstructed
    /\ op = NoOp
    /\ prev = NotConstructed
    /\ calls = 0
    /\ ragged = <<>>
    /\ norm = <<>>
    /\ alias \in {[layout |-> l, heap |-> SourceHeap(l), objs |-> SourceObjects,
                   last |-> "", steps |-> 0,
                   seen |-> [t \in {"A", "B", "C"} |-> <<>>]] : l \in Layouts}

Exists(t) == alias.objs[t] /= NoObject

CanStep == Exists("C") /\ alias.steps < MaxSteps

\* [d.corpus + "_" + v for v in the list at address a]
Prefixed(h, o, a) == [k \in DOMAIN h[a] |-> o.corpus \o "_" \o h[a][k]]

\* C = CombinedDataset(A, B)
AliasCombine ==
    /\ ~Exists("C")
    /\ LET h == alias.heap
           A == alias.objs.A
           B == alias.objs.B
           names == Prefixed(h, A, A.names) \o Prefixed(h, B, B.names)
           speakers == Prefixed(h, A, A.speakers) \o Prefixed(h, B, B.speakers)
           si == h[A.speaker_indices]
                 \o Offset(h[B.speaker_indices], Len(h[A.speakers]))
           x == h[A.x] \o h[B.x]
           y == h[A.y] \o h[B.y]
           C == [features |-> A.features,
                 names |-> New(h), speakers |-> New(h) + 1,
                 speaker_indices |-> New(h) + 2,
                 x |-> New(h) + 3, y |-> New(h) + 4, corpus |-> "combined"]
       IN  alias' = [alias EXCEPT
                        !.heap = h \o <<names, speakers, si, x, y>>,
                        !.objs = [alias.objs EXCEPT !.C = C]]
    /\ UNCHANGED others

\* t.features.append("extra")
AppendFeature ==
    /\ CanStep
    /\ \E t \in {"A", "B", "C"} :
          /\ Exists(t)
          /\ LET o == alias.objs[t]
             IN  alias' = After([alias.heap EXCEPT
                                    ![o.features] = Append(@, "extra")],
                                alias.objs, t)
    /\ UNCHANGED others

\* t.x[k][...] = Written
WriteInstance ==
    /\ CanStep
    /\ \E t \in {"A", "B", "C"} :
          /\ Exists(t)
          /\ LET o == alias.objs[t]
                 h == alias.heap
             IN  \E k \in DOMAIN h[o.x] :
                    alias' = After(
                        IF alias.layout = "dense"
                        THEN [h EXCEPT ![o.x][k] = Written]
                        ELSE [h EXCEPT ![h[o.x][k]] =
                                [f \in DOMAIN @ |-> Written]],
                        alias.objs, t)
    /\ UNCHANGED others

\* t.remove_classes(keep), idx being the positions it keeps
AliasFilter ==
    /\ CanStep
    /\ \E t \in {"A", "B", "C"} :
          /\ Exists(t)
          /\ LET o == alias.objs[t]
                 h == alias.heap
             IN  \E S \in SUBSET (0..(Len(h[o.x]) - 1)) :
                    LET idx == Ascending(S)
                    IN  alias' = After(
                            h \o <<Take(h[o.names], idx), Take(h[o.x], idx),
                                   Take(h[o.speaker_indices], idx),
                                   Take(h[o.y], idx)>>,
                            [alias.objs EXCEPT ![t] =
                                [o EXCEPT !.names = New(h), !.x = New(h) + 1,
                                          !.speaker_indices = New(h) + 2,
                                          !.y = New(h) + 3]],
                            t)
    /\ UNCHANGED others

\* t.map_classes(map) with a map that exchanges the two classes
AliasMapClasses ==
    /\ CanStep
    /\ \E t \in {"A", "B", "C"} :
          /\ Exists(t)
          /\ LET o == alias.objs[t]
                 h == alias.heap
             IN  alias' = After(
                    Append(h, [k \in DOMAIN h[o.y] |-> 1 - h[o.y][k]]),
                    [alias.objs EXCEPT ![t] = [o EXCEPT !.y = New(h)]], t)
    /\ UNCHANGED others

\* the heap after the slots of the ragged container at address x got the
\* new arrays arrs
Slots(h, x, arrs) ==
    [h \o arrs EXCEPT ![x] = [k \in DOMAIN arrs |-> Len(h) + k]]

\* t.normalise(normaliser, scheme) where the call returns, the instances of
\* t being of one speaker and of one corpus
AliasNormalise ==
    /\ CanStep
    /\ \E t \in {"A", "B", "C"}, scheme \in {"all", "speaker"} :
          /\ Exists(t)
          /\ LET o == alias.objs[t]
                 h == alias.heap
                 r == make_flat(Deep(h, o, alias.layout))
                 n == fit_transform(IF alias.layout = "dense" THEN h[o.x]
                                    ELSE r.flat)
             IN  /\ alias.layout = "ragged" => r.raised = ""
                 /\ n.raised = ""
                 /\ alias' =
                      IF alias.layout = "ragged"
                      THEN After(Slots(h, o.x, make_ragged(n.out, r.slices)),
                                 alias.objs, t)
                      ELSE IF scheme = "all"
                      THEN After(Append(h, n.out),
                                 [alias.objs EXCEPT ![t] =
                                     [o EXCEPT !.x = New(h)]], t)
                      ELSE After([h EXCEPT ![o.x] = n.out], alias.objs, t)
    /\ UNCHANGED others

AliasNext ==
    \/ AliasCombine
    \/ AppendFeature
    \/ WriteInstance
    \/ AliasFilter
    \/ AliasMapClasses
    \/ AliasNormalise

SpecAlias == AliasInit /\ [][AliasNext]_vars

\* C13: once the combination exists, a call or an in-place change on a
\* source leaves what the combination's properties deliver as it was, and
\* one on the combination leaves what the sources' properties deliver as it
\* was
C13_NoSharedState ==
    alias /= <<>> /\ alias.last /= "" /\ alias.seen["C"] /= <<>> =>
        LET now == [t \in {"A", "B", "C"} |->
                        Observe(alias.heap, alias.objs[t], alias.layout)]
        IN  \A t \in {"A", "B", "C"} :
                t /= alias.last /\ (t = "C" \/ alias.last = "C") =>
                    now[t] = alias.seen[t]

====
